---- MODULE Spec2Model ----
(***************************************************************************)
(* A state-machine model of the apigateway request layer: the four         *)
(* framework adapters, the validation pipeline that runs between an        *)
(* adapter and the application handler, and the bearer-token decorators    *)
(* require_token / require_access.                                         *)
(*                                                                         *)
(* One call is followed from its arrival to its outcome.  Strings are      *)
(* sequences of one-character strings, so that prefix tests, splitting,    *)
(* stripping and case conversion are computed character by character.      *)
(***************************************************************************)
EXTENDS Integers, Sequences, FiniteSets, TLC

\* ------------------------------------------------------------------ bounds

\* Most values one key carries inside one multi-valued source (query, form).
MaxVals == 2
\* Longest pre-validator list a handler is registered with.
MaxPre == 1
\* Longest post-validator list a handler is registered with.
MaxPost == 2
\* Most dot-separated segments a bearer token is sent with.
MaxSegs == 3
\* Clock ticks in one second.
TicksPerSecond == 2
\* Latest clock reading followed, in ticks.
MaxClock == 5

\* ----------------------------------------------------------------- strings

LowerLetters == <<"a","b","c","d","e","f","g","h","i","j","k","l","m",
                  "n","o","p","q","r","s","t","u","v","w","x","y","z">>
UpperLetters == <<"A","B","C","D","E","F","G","H","I","J","K","L","M",
                  "N","O","P","Q","R","S","T","U","V","W","X","Y","Z">>
Digits == <<"0","1","2","3","4","5","6","7","8","9">>

\* str.upper() on one character.
UpperChar(c) ==
  IF \E i \in 1..26 : LowerLetters[i] = c
  THEN UpperLetters[CHOOSE i \in 1..26 : LowerLetters[i] = c]
  ELSE c

\* str.upper()
Upper(s) == [i \in 1..Len(s) |-> UpperChar(s[i])]

\* str.startswith(prefix)
StartsWith(s, prefix) ==
  /\ Len(s) >= Len(prefix)
  /\ \A i \in 1..Len(prefix) : s[i] = prefix[i]

\* str.strip(): leading and trailing blanks removed.
RECURSIVE Strip(_)
Strip(s) ==
  IF s = <<>> THEN s
  ELSE IF Head(s) = " " THEN Strip(Tail(s))
  ELSE IF s[Len(s)] = " " THEN Strip(SubSeq(s, 1, Len(s) - 1))
  ELSE s

IsNumeric(s) == s /= <<>> /\ \A i \in 1..Len(s) : \E d \in 1..10 : Digits[d] = s[i]

DigitVal(c) == (CHOOSE d \in 1..10 : Digits[d] = c) - 1

RECURSIVE ParseInt(_)
ParseInt(s) ==
  IF s = <<>> THEN 0
  ELSE 10 * ParseInt(SubSeq(s, 1, Len(s) - 1)) + DigitVal(s[Len(s)])

CHARLIE == <<"c","h","a","r","l","i","e">>
SPACED_CHARLIE == <<" ","c","h","a","r","l","i","e"," ">>
ADMIN == <<"a","d","m","i","n">>
ACTIVE == <<"a","c","t","i","v","e">>
BOB == <<"b","o","b">>
N120000 == <<"1","2","0","0","0","0">>
N50000 == <<"5","0","0","0","0">>
AUDITED_ == <<"a","u","d","i","t","e","d","_">>

\* ------------------------------------------------------------------ values

\* A scalar of a request: a string, or an integer.
StrV(s) == [t |-> "str", s |-> s, n |-> 0]
IntV(n) == [t |-> "int", s |-> <<>>, n |-> n]

\* A value of the raw request mapping: one scalar, or an ordered list.
Scalar(x) == [list |-> FALSE, items |-> <<x>>]
List(xs) == [list |-> TRUE, items |-> xs]

EmptyMap == [k \in {} |-> Scalar(StrV(<<>>))]

\* dict.update(): the second mapping's entries overwrite the first's.
Update(d, e) ==
  [k \in (DOMAIN d) \cup (DOMAIN e) |-> IF k \in DOMAIN e THEN e[k] ELSE d[k]]

\* A JSON object (field -> scalar) as raw mapping entries.
AsRaw(obj) == [k \in DOMAIN obj |-> Scalar(obj[k])]

\* ---------------------------------------------------------------- adapters

Adapters == {"Flask", "Django", "FastAPI", "Generic"}

\* What extract_request_data gives back: a mapping ("data"), FastAPI's pair of
\* mapping and already-validated model ("tuple"), or an exception (its class).
NoModel == [cls |-> "", f |-> EmptyMap]
Extracted(data) == [kind |-> "data", data |-> data, model |-> NoModel, message |-> ""]
ExtractedPair(data, model) ==
  [kind |-> "tuple", data |-> data, model |-> model, message |-> ""]
ExtractRaises(cls, message) ==
  [kind |-> cls, data |-> EmptyMap, model |-> NoModel, message |-> message]

FlattenAlwaysList(values) == List(values)

\* values[0] if len(values) == 1 else values
Flatten(values) == IF Len(values) = 1 THEN Scalar(values[1]) ELSE List(values)

\* One multi-valued source, each key flattened.
FlattenSource(md) == [k \in DOMAIN md |-> Flatten(md[k])]

\* data.update(json_data) for the parsed body: a mapping is merged, anything
\* else that is truthy (a list, a number, a string) makes update() raise.
JsonUpdateRaises(body) == body.kind = "nonmapping"

FlaskExtractSwallow(r) ==
  LET q == Update(EmptyMap, FlattenSource(r.args))
      f == Update(q, FlattenSource(r.form))
  IN  IF r.json.kind = "object" THEN Extracted(Update(f, AsRaw(r.json.obj)))
      ELSE Extracted(f)

FlaskExtractQueryLast(r) ==
  LET j == IF r.json.kind = "object" THEN AsRaw(r.json.obj) ELSE EmptyMap
      f == Update(j, FlattenSource(r.form))
  IN  IF r.json.kind \in {"malformed", "nonmapping"}
      THEN ExtractRaises("GatewayValidationError", "Invalid JSON format in request body")
      ELSE Extracted(Update(f, FlattenSource(r.args)))

\* FlaskAdapter.extract_request_data: query, then form, then the JSON body.
FlaskExtract(r) ==
  LET q == Update(EmptyMap, FlattenSource(r.args))
      f == Update(q, FlattenSource(r.form))
  IN  IF r.json.kind = "none" THEN Extracted(f)
      ELSE IF r.json.kind = "malformed" \/ JsonUpdateRaises(r.json)
      THEN ExtractRaises("GatewayValidationError", "Invalid JSON format in request body")
      ELSE IF r.json.kind = "object" THEN Extracted(Update(f, AsRaw(r.json.obj)))
      ELSE Extracted(f)

\* DjangoAdapter.extract_request_data: the JSON body, then POST, then GET.
DjangoExtract(r) ==
  LET j == IF r.json.kind = "object" THEN Update(EmptyMap, AsRaw(r.json.obj))
           ELSE EmptyMap
      p == Update(j, FlattenSource(r.form))
      g == Update(p, FlattenSource(r.args))
  IN  IF r.json.kind = "malformed"
      THEN ExtractRaises("GatewayValidationError", "Invalid JSON in request body")
      ELSE IF JsonUpdateRaises(r.json)
      THEN ExtractRaises("TypeError", "")
      ELSE Extracted(g)

\* FastAPIAdapter._model_to_dict
ModelToDict(model) == AsRaw(model.f)

\* isinstance(value, BaseModel)
IsBaseModel(a) == a.kind = "model"

FastAPIExtractPositionalFirst(r) ==
  LET km == {i \in 1..Len(r.kwargs) : IsBaseModel(r.kwargs[i])}
      am == {i \in 1..Len(r.posargs) : IsBaseModel(r.posargs[i])}
      first(S) == CHOOSE i \in S : \A j \in S : i <= j
  IN  IF am /= {}
      THEN ExtractedPair(ModelToDict(r.posargs[first(am)].model), r.posargs[first(am)].model)
      ELSE IF km /= {}
      THEN ExtractedPair(ModelToDict(r.kwargs[first(km)].model), r.kwargs[first(km)].model)
      ELSE Extracted(EmptyMap)

\* FastAPIAdapter.extract_request_data: the first model among the keyword
\* arguments, else among the positional ones, else the empty mapping.
FastAPIExtract(r) ==
  LET km == {i \in 1..Len(r.kwargs) : IsBaseModel(r.kwargs[i])}
      am == {i \in 1..Len(r.posargs) : IsBaseModel(r.posargs[i])}
      first(S) == CHOOSE i \in S : \A j \in S : i <= j
  IN  IF km /= {}
      THEN ExtractedPair(ModelToDict(r.kwargs[first(km)].model), r.kwargs[first(km)].model)
      ELSE IF am /= {}
      THEN ExtractedPair(ModelToDict(r.posargs[first(am)].model), r.posargs[first(am)].model)
      ELSE Extracted(EmptyMap)

\* GenericAdapter.extract_request_data: the first positional argument; a dict
\* is returned as it is, a model is dumped, an object's __dict__ is copied.
GenericExtract(r) ==
  IF Len(r.posargs) = 0 THEN Extracted(EmptyMap)
  ELSE LET a == r.posargs[1]
       IN  IF a.kind = "None" THEN Extracted(EmptyMap)
           ELSE IF a.kind = "dict" THEN Extracted(a.data)
           ELSE IF a.kind = "model" THEN Extracted(ModelToDict(a.model))
           ELSE IF a.kind = "object" THEN Extracted(a.data)
           ELSE ExtractRaises("GatewayValidationError", "Unsupported request data type")

\* adapter.extract_request_data(*args, **kwargs)
ExtractRequestData(adapter, r) ==
  CASE adapter = "Flask" -> FlaskExtract(r)
    [] adapter = "Django" -> DjangoExtract(r)
    [] adapter = "FastAPI" -> FastAPIExtract(r)
    [] adapter = "Generic" -> GenericExtract(r)

\* ----------------------------------------------------- adapters: responses

\* What a call gives back to its caller: a handler's return value, a
\* framework response (status and JSON body), or a raised exception.
NoOutcome ==
  [kind |-> "none", status |-> 0, key |-> "", message |-> "", details |-> <<>>,
   exc |-> "", value |-> ""]
Returned(v) == [NoOutcome EXCEPT !.kind = "return", !.value = v]
Response(status, key, message, details) ==
  [NoOutcome EXCEPT !.kind = "response", !.status = status, !.key = key,
                    !.message = message, !.details = details]
Raised(cls, status, message, details) ==
  [NoOutcome EXCEPT !.kind = "raise", !.exc = cls, !.status = status,
                    !.message = message, !.details = details]

FlaskValidationStatus == 422
DjangoValidationStatus == 400
FastAPIValidationStatus == 422

FlaskHandleValidationErrorAs400(e) ==
  Response(DjangoValidationStatus, "message", e.message, e.details)

\* FlaskAdapter.handle_validation_error
FlaskHandleValidationError(e) ==
  Response(FlaskValidationStatus, "message", e.message, e.details)

DjangoHandleValidationErrorAsFlask(e) ==
  Response(DjangoValidationStatus, "message", e.message, e.details)

GenericHandleValidationErrorNoDetails(e) == Raised(e.cls, 0, e.message, <<>>)

\* DjangoAdapter.handle_validation_error
DjangoHandleValidationError(e) ==
  Response(DjangoValidationStatus, "error", e.message, e.details)

\* FastAPIAdapter.handle_validation_error: raises the framework's HTTPException.
FastAPIHandleValidationError(e) ==
  Raised("HTTPException", FastAPIValidationStatus, e.message, e.details)

\* GenericAdapter.handle_validation_error: raise error
GenericHandleValidationError(e) == Raised(e.cls, 0, e.message, e.details)

\* adapter.handle_validation_error(error)
HandleValidationError(adapter, e) ==
  CASE adapter = "Flask" -> FlaskHandleValidationError(e)
    [] adapter = "Django" -> DjangoHandleValidationError(e)
    [] adapter = "FastAPI" -> FastAPIHandleValidationError(e)
    [] adapter = "Generic" -> GenericHandleValidationError(e)

\* ------------------------------------------------------------------ schemas

\* The schemas of the tests: declared fields in declaration order.
UserSchema == <<[name |-> "username", type |-> "str"]>>
SalarySchema == <<[name |-> "role", type |-> "str"], [name |-> "salary", type |-> "int"]>>

Schemas == {"UserSchema", "SalarySchema"}
FieldsOf(schema) == IF schema = "UserSchema" THEN UserSchema ELSE SalarySchema
Declared(schema) == {FieldsOf(schema)[i].name : i \in 1..Len(FieldsOf(schema))}

\* Every key a request may carry, in a fixed order; "extra" is declared nowhere.
KeyOrder == <<"username", "role", "salary", "extra">>
KeysFor(schema) == Declared(schema) \cup {"extra"}

Modes == {"STRICT", "LAX", "PERMISSIVE"}

RejectUnknownAlways(mode) == TRUE

\* The two switches a mode selects.
RejectUnknown(mode) == mode = "STRICT"
Coerce(mode) == mode /= "STRICT"

\* One declared field against its value: the accepted scalar, or a failure.
FieldCheck(type, v, coerce) ==
  IF v.list THEN [ok |-> FALSE, x |-> StrV(<<>>)]
  ELSE LET x == v.items[1]
       IN  IF x.t = type THEN [ok |-> TRUE, x |-> x]
           ELSE IF type = "int" /\ x.t = "str" /\ coerce /\ IsNumeric(x.s)
           THEN [ok |-> TRUE, x |-> IntV(ParseInt(x.s))]
           ELSE [ok |-> FALSE, x |-> StrV(<<>>)]

FieldError(path, message) == [path |-> path, message |-> message]

\* The keys of `keys` in KeyOrder.
InKeyOrder(keys) ==
  LET sel[i \in 0..Len(KeyOrder)] ==
        IF i = 0 THEN <<>>
        ELSE IF KeyOrder[i] \in keys THEN Append(sel[i - 1], KeyOrder[i])
        ELSE sel[i - 1]
  IN  sel[Len(KeyOrder)]

\* The field errors of a mapping, in detection order: the declared fields in
\* declaration order (missing, wrong type), then the undeclared keys.
SchemaErrors(schema, data, rejectUnknown, coerce) ==
  LET fs == FieldsOf(schema)
      decl[i \in 0..Len(fs)] ==
        IF i = 0 THEN <<>>
        ELSE IF fs[i].name \notin DOMAIN data
        THEN Append(decl[i - 1], FieldError(fs[i].name, "missing"))
        ELSE IF ~FieldCheck(fs[i].type, data[fs[i].name], coerce).ok
        THEN Append(decl[i - 1], FieldError(fs[i].name, fs[i].type \o "_type"))
        ELSE decl[i - 1]
      unknown == InKeyOrder((DOMAIN data) \ Declared(schema))
  IN  decl[Len(fs)] \o
      (IF rejectUnknown
       THEN [i \in 1..Len(unknown) |-> FieldError(unknown[i], "extra_forbidden")]
       ELSE <<>>)

\* The validated object: the declared fields only, each as accepted.
SchemaObject(schema, data, coerce) ==
  LET fs == FieldsOf(schema)
      typeOf(k) == fs[CHOOSE i \in 1..Len(fs) : fs[i].name = k].type
  IN  [cls |-> schema,
       f |-> [k \in Declared(schema) |-> FieldCheck(typeOf(k), data[k], coerce).x]]

\* An error as the pipeline hands it to the adapter.
GatewayValidationError(message, details) ==
  [cls |-> "GatewayValidationError", message |-> message, details |-> details]
NoError == [cls |-> "", message |-> "", details |-> <<>>]

\* The error formatters a handler may be registered with: the default keeps
\* each field error as a {path, message} record; silly_formatter is the tests'.
Formatters == {"default", "silly_formatter"}
OOPS == <<[oops |-> "yeah"]>>
FormatErrors(formatter, errors) == IF formatter = "default" THEN errors ELSE OOPS

\* --------------------------------------------------------------- validators

\* Pre-validators: sanitize_strings strips every string value; reject_all
\* stands for a pre-validator that raises.
PreNames == {"sanitize_strings", "reject_all"}

SanitizeStrings(data) ==
  [k \in DOMAIN data |->
     IF ~data[k].list /\ data[k].items[1].t = "str"
     THEN Scalar(StrV(Strip(data[k].items[1].s)))
     ELSE data[k]]

PreResult(ok, data) == [ok |-> ok, data |-> data]
ApplyPre(name, data) ==
  IF name = "sanitize_strings" THEN PreResult(TRUE, SanitizeStrings(data))
  ELSE PreResult(FALSE, data)

\* Post-validators of the tests.  Each reads attributes of the object; on an
\* object without the attribute the read raises AttributeError.
PostNames == {"audit_user", "uppercase_username", "enforce_min_salary"}
PostResult(ok, obj, message) == [ok |-> ok, obj |-> obj, message |-> message]
MinAdminSalary == 100000

AuditUserSuffix(obj) ==
  IF "username" \notin DOMAIN obj.f THEN PostResult(FALSE, obj, "AttributeError")
  ELSE PostResult(TRUE, [obj EXCEPT !.f["username"] = StrV(@.s \o AUDITED_)], "")

\* user.username = f"audited_{user.username}"; return user
AuditUser(obj) ==
  IF "username" \notin DOMAIN obj.f THEN PostResult(FALSE, obj, "AttributeError")
  ELSE PostResult(TRUE, [obj EXCEPT !.f["username"] = StrV(AUDITED_ \o @.s)], "")

\* user.username = user.username.upper(); return user
UppercaseUsername(obj) ==
  IF "username" \notin DOMAIN obj.f THEN PostResult(FALSE, obj, "AttributeError")
  ELSE PostResult(TRUE, [obj EXCEPT !.f["username"] = StrV(Upper(@.s))], "")

EnforceMinSalaryNever(obj) ==
  IF "role" \notin DOMAIN obj.f THEN PostResult(FALSE, obj, "AttributeError")
  ELSE PostResult(TRUE, obj, "")

\* if model.role == "admin" and model.salary < 100000: raise ValueError(...)
EnforceMinSalary(obj) ==
  IF "role" \notin DOMAIN obj.f THEN PostResult(FALSE, obj, "AttributeError")
  ELSE IF obj.f["role"] = StrV(ADMIN) /\ obj.f["salary"].n < MinAdminSalary
  THEN PostResult(FALSE, obj, "Admin too cheap!")
  ELSE PostResult(TRUE, obj, "")

ApplyPost(name, obj) ==
  CASE name = "audit_user" -> AuditUser(obj)
    [] name = "uppercase_username" -> UppercaseUsername(obj)
    [] name = "enforce_min_salary" -> EnforceMinSalary(obj)


\* ------------------------------------------------------- bearer-token auth

\* str.split(sep) for a one-character separator: every occurrence splits.
RECURSIVE Split(_, _)
Split(s, sep) ==
  IF \A i \in 1..Len(s) : s[i] /= sep THEN <<s>>
  ELSE LET i == CHOOSE i \in 1..Len(s) : s[i] = sep /\ \A j \in 1..(i - 1) : s[j] /= sep
       IN  <<SubSeq(s, 1, i - 1)>> \o Split(SubSeq(s, i + 1, Len(s)), sep)

\* sep.join(parts)
RECURSIVE Join(_, _)
Join(parts, sep) ==
  IF parts = <<>> THEN <<>>
  ELSE IF Len(parts) = 1 THEN parts[1]
  ELSE parts[1] \o <<sep>> \o Join(Tail(parts), sep)

BEARER == <<"B","e","a","r","e","r">>
BEARER_ == BEARER \o <<" ">>
LOWER_BEARER_ == <<"b","e","a","r","e","r"," ">>
BASIC_ == <<"B","a","s","i","c"," ">>
EDITOR == <<"e","d","i","t","o","r">>

\* Token segments, as they travel (base64url without padding).
\* {"alg":"HS256"}
SEG_HEADER == <<"e","y","J","h","b","G","c","i","O","i","J","I","U","z","I","1","N","i","J","9">>
\* {"role":"admin"}
SEG_ADMIN == <<"e","y","J","y","b","2","x","l","I","j","o","i","Y","W","R","t","a","W","4","i","f","Q">>
\* {"sub":1}
SEG_NO_ROLE == <<"e","y","J","z","d","W","I","i","O","j","F","9">>
\* {"role":""}
SEG_EMPTY_ROLE == <<"e","y","J","y","b","2","x","l","I","j","o","i","I","n","0">>
\* []
SEG_LIST == <<"W","1","0">>
\* {   (bytes that are not JSON)
SEG_BAD_JSON == <<"e","w">>
\* one character: no base64 data has this length
SEG_BAD_B64 == <<"a">>

\* What a token's payload decodes to: a JSON object (claim -> scalar) or
\* some other JSON value.
NoClaims == [k \in {} |-> StrV(<<>>)]
NoPayload == [kind |-> "none", claims |-> NoClaims]
PayloadDict(claims) == [kind |-> "dict", claims |-> claims]
PayloadList == [kind |-> "list", claims |-> NoClaims]

\* payload_b64 += '=' * (-len(payload_b64) % 4)
Pad(seg) == seg \o [i \in 1..((4 - (Len(seg) % 4)) % 4) |-> "="]

\* base64.urlsafe_b64decode: the bytes, named by their text; data whose
\* length is one more than a multiple of four is rejected.
UrlsafeB64Decode(padded) ==
  LET data == SelectSeq(padded, LAMBDA c : c /= "=")
  IN  IF Len(data) % 4 = 1 THEN [ok |-> FALSE, text |-> ""]
      ELSE [ok |-> TRUE,
            text |-> CASE data = SEG_HEADER -> "{\"alg\":\"HS256\"}"
                       [] data = SEG_ADMIN -> "{\"role\":\"admin\"}"
                       [] data = SEG_NO_ROLE -> "{\"sub\":1}"
                       [] data = SEG_EMPTY_ROLE -> "{\"role\":\"\"}"
                       [] data = SEG_LIST -> "[]"
                       [] data = SEG_BAD_JSON -> "{"
                       [] OTHER -> ""]

\* json.loads: any JSON value is returned, an object or not.
JsonLoads(text) ==
  CASE text = "{\"alg\":\"HS256\"}" ->
         [ok |-> TRUE, value |-> PayloadDict([k \in {"alg"} |-> StrV(<<"H","S","2","5","6">>)])]
    [] text = "{\"role\":\"admin\"}" ->
         [ok |-> TRUE, value |-> PayloadDict([k \in {"role"} |-> StrV(ADMIN)])]
    [] text = "{\"sub\":1}" ->
         [ok |-> TRUE, value |-> PayloadDict([k \in {"sub"} |-> IntV(1)])]
    [] text = "{\"role\":\"\"}" ->
         [ok |-> TRUE, value |-> PayloadDict([k \in {"role"} |-> StrV(<<>>)])]
    [] text = "[]" -> [ok |-> TRUE, value |-> PayloadList]
    [] OTHER -> [ok |-> FALSE, value |-> NoPayload]

\* auth.AuthError(message, status_code=401)
DefaultAuthStatus == 401
ForbiddenStatus == 403
AuthError(message, status_code) ==
  [cls |-> "AuthError", message |-> message, status_code |-> status_code]
NoAuthError == [cls |-> "", message |-> "", status_code |-> 0]

\* simple_decode: the second dot-separated segment, padded, base64-decoded
\* and parsed; any exception on the way becomes AuthError("Invalid token
\* format", 401).
simple_decode(token) ==
  LET parts == Split(token, ".")
      bad == [ok |-> FALSE, payload |-> NoPayload]
  IN  IF Len(parts) < 2 THEN bad
      ELSE LET b == UrlsafeB64Decode(Pad(parts[2]))
           IN  IF ~b.ok THEN bad
               ELSE LET j == JsonLoads(b.text)
                    IN  IF j.ok THEN [ok |-> TRUE, payload |-> j.value] ELSE bad

HeaderRejectedWithoutSpace(h) == ~h.present \/ h.s = <<>> \/ ~StartsWith(h.s, BEARER)

\* not auth_header or not auth_header.startswith("Bearer ")
HeaderRejected(h) == ~h.present \/ h.s = <<>> \/ ~StartsWith(h.s, BEARER_)

\* auth_header.split(" ")[1]
TokenOf(s) ==
  LET parts == Split(s, " ")
  IN  IF Len(parts) < 2 THEN [ok |-> FALSE, token |-> <<>>]
      ELSE [ok |-> TRUE, token |-> parts[2]]

\* payload.get("role"): the claim, or None.
HasRole(payload) == "role" \in DOMAIN payload.claims

\* not user_role: None, "" and 0 are falsy.
Falsy(x) == (x.t = "str" /\ x.s = <<>>) \/ (x.t = "int" /\ x.n = 0)

\* user_role in allowed_roles
RoleIn(x, allowed_roles) ==
  x.t = "str" /\ \E i \in 1..Len(allowed_roles) : allowed_roles[i] = x.s

\* not user_role or user_role not in allowed_roles
RoleRejected(payload, allowed_roles) ==
  \/ ~HasRole(payload)
  \/ Falsy(payload.claims["role"])
  \/ ~RoleIn(payload.claims["role"], allowed_roles)

SetUserPayloadDefault(kwargs, p) ==
  [k \in (DOMAIN kwargs) \cup {"user_payload"} |->
     IF k \in DOMAIN kwargs THEN kwargs[k] ELSE p]

\* kwargs['user_payload'] = payload
SetUserPayload(kwargs, p) ==
  [k \in (DOMAIN kwargs) \cup {"user_payload"} |->
     IF k = "user_payload" THEN p ELSE kwargs[k]]

\* FlaskAdapter.handle_auth_error
FlaskHandleAuthError(e) == Response(e.status_code, "detail", e.message, <<>>)

\* ------------------------------------------------ registration-time options

\* All sequences over S of length at most n.
SeqUpTo(S, n) == UNION {[1..k -> S] : k \in 0..n}

NoRoles == <<>>

\* What the application handler does when it is invoked.
HandlerBehaviours == {"return", "raise", "raise_AuthError"}

\* A handler's binding: which decorators wrap it and with what.
\*   chain     "validate", "auth", or "auth+validate" (auth outermost)
\*   decorator "require_token" or "require_access" ("" without auth)
Config(chain, adapter, schema, mode, pre, post, formatter, decorator, roles, handler) ==
  [chain |-> chain, adapter |-> adapter, schema |-> schema, mode |-> mode,
   pre |-> pre, post |-> post, formatter |-> formatter,
   decorator |-> decorator, allowed_roles |-> roles, handler |-> handler]

ValidateConfig(adapter, schema, mode, pre, post, formatter) ==
  Config("validate", adapter, schema, mode, pre, post, formatter, "", NoRoles, "return")

\* A handler behind require_token or require_access of the Flask adapter.
AuthConfig(decorator, roles, handler) ==
  Config("auth", "Flask", "UserSchema", "STRICT", <<>>, <<>>, "default",
         decorator, roles, handler)

\* ----------------------------------------------------------------- requests

\* The i-th value a source sends for a key (the sources send different ones).
QueryAtoms == <<StrV(N120000), StrV(ACTIVE), StrV(BOB)>>
FormAtoms == <<StrV(N50000), StrV(BOB), StrV(ACTIVE)>>
AtomAt(atoms, i) == atoms[((i - 1) % Len(atoms)) + 1]

\* The value lists of one key in a multi-valued source: 1..MaxVals values.
ValLists(atoms) == {[i \in 1..n |-> AtomAt(atoms, i)] : n \in 1..MaxVals}

\* A multi-valued source (werkzeug MultiDict, Django QueryDict) over some keys.
MultiDicts(keys, atoms) == UNION {[K -> ValLists(atoms)] : K \in SUBSET keys}

JsonAtoms(k) ==
  CASE k = "username" -> {StrV(CHARLIE), IntV(50000)}
    [] k = "role" -> {StrV(ADMIN), StrV(CHARLIE)}
    [] k = "salary" -> {IntV(50000), IntV(120000), StrV(N120000)}
    [] k = "extra" -> {StrV(ACTIVE)}

AllJsonAtoms == UNION {JsonAtoms(KeyOrder[i]) : i \in 1..Len(KeyOrder)}

\* JSON objects (field -> scalar) over some of the keys.
JsonObjects(keys) ==
  UNION {{o \in [K -> AllJsonAtoms] : \A k \in K : o[k] \in JsonAtoms(k)} : K \in SUBSET keys}

\* The declared body of a request:
\*   none        no JSON content type
\*   object      a JSON object
\*   malformed   bytes that do not parse as JSON
\*   nonmapping  JSON that parses to a truthy non-object (a list, a number)
\*   falsy       JSON that parses to null, 0, "" or []
NoJson == [kind |-> "none", obj |-> EmptyMap]
JsonObject(o) == [kind |-> "object", obj |-> o]
JsonSpecial(kind) == [kind |-> kind, obj |-> EmptyMap]
JsonSpecials == {JsonSpecial("malformed"), JsonSpecial("nonmapping"), JsonSpecial("falsy")}

\* A positional or keyword argument of a call.
NoneArg == [kind |-> "None", data |-> EmptyMap, model |-> NoModel]
DictArg(d) == [kind |-> "dict", data |-> d, model |-> NoModel]
ModelArg(m) == [kind |-> "model", data |-> EmptyMap, model |-> m]
ObjectArg(d) == [kind |-> "object", data |-> d, model |-> NoModel]
IntArg == [kind |-> "int", data |-> EmptyMap, model |-> NoModel]

NoHeader == [present |-> FALSE, s |-> <<>>]

Request(args, form, json, posargs, kwargs, header) ==
  [args |-> args, form |-> form, json |-> json, posargs |-> posargs,
   kwargs |-> kwargs, header |-> header]

\* A web request (Flask, Django): a query string, and a body that is a form
\* or declared JSON, never both.
WebRequest(args, form, json) == Request(args, form, json, <<>>, <<>>, NoHeader)

\* Instances of a schema, as a framework hands them over already validated.
Models(schema) ==
  IF schema = "UserSchema"
  THEN {[cls |-> schema, f |-> [k \in {"username"} |-> StrV(CHARLIE)]],
        [cls |-> schema, f |-> [k \in {"username"} |-> StrV(BOB)]]}
  ELSE {[cls |-> schema, f |-> [k \in {"role", "salary"} |->
                                  IF k = "role" THEN StrV(ADMIN) ELSE IntV(n)]]
          : n \in {50000, 120000}}

\* Web requests with every combination of the sources.
RichWebRequests(schema) ==
  LET keys == KeysFor(schema)
  IN  {WebRequest(a, f, NoJson) :
         a \in MultiDicts(keys, QueryAtoms), f \in MultiDicts(keys, FormAtoms)}
      \cup
      {WebRequest(a, EmptyMap, j) :
         a \in MultiDicts(keys, QueryAtoms),
         j \in {JsonObject(o) : o \in JsonObjects(keys)} \cup JsonSpecials}

\* Web requests with a JSON body only.
BasicWebRequests(schema) ==
  {WebRequest(EmptyMap, EmptyMap, j) :
     j \in {JsonObject(o) : o \in JsonObjects(KeysFor(schema))} \cup JsonSpecials}

\* Calls of a generically decorated handler: handler(), handler(x).
GenericRequests(schema) ==
  LET dicts == {AsRaw(o) : o \in JsonObjects(KeysFor(schema))}
               \cup {[k \in {"username"} |-> Scalar(StrV(SPACED_CHARLIE))]}
      arg0 == {NoneArg, IntArg} \cup {DictArg(d) : d \in dicts}
              \cup {ModelArg(m) : m \in Models(schema)}
              \cup {ObjectArg(AsRaw(m.f)) : m \in Models(schema)}
  IN  {Request(EmptyMap, EmptyMap, NoJson, p, <<>>, NoHeader) :
         p \in {<<>>} \cup {<<a>> : a \in arg0}}

\* Calls FastAPI makes after binding: models and plain path parameters.
FastAPIRequests(schema) ==
  LET arg == {IntArg} \cup {ModelArg(m) : m \in Models(schema)}
  IN  {Request(EmptyMap, EmptyMap, NoJson, p, k, NoHeader) :
         p \in SeqUpTo(arg, 1), k \in SeqUpTo(arg, 2)}

RequestsFor(adapter, schema, rich) ==
  CASE adapter \in {"Flask", "Django"} ->
         IF rich THEN RichWebRequests(schema) ELSE BasicWebRequests(schema)
    [] adapter = "Generic" -> GenericRequests(schema)
    [] adapter = "FastAPI" -> FastAPIRequests(schema)

\* A call that carries only an Authorization header.
Header(s) == [present |-> TRUE, s |-> s]
AuthRequest(header) == Request(EmptyMap, EmptyMap, NoJson, <<>>, <<>>, header)

\* Keyword arguments of a call of a protected handler, by name: a
\* user_payload the caller supplies itself, and a URL variable.
CallerKwargs ==
  {[k \in K |-> IF k = "user_payload"
                THEN PayloadDict([c \in {"role"} |-> StrV(ADMIN)])
                ELSE IntArg] :
     K \in SUBSET {"user_payload", "item_id"}}

\* A call with a header, positional and keyword arguments.
AuthCall(header, posargs, kwargs) ==
  Request(EmptyMap, EmptyMap, NoJson, posargs, kwargs, header)

Segments ==
  {SEG_HEADER, SEG_ADMIN, SEG_NO_ROLE, SEG_EMPTY_ROLE, SEG_LIST, SEG_BAD_JSON,
   SEG_BAD_B64}

\* Tokens of up to MaxSegs segments joined by dots.
Tokens == {Join(segs, ".") : segs \in SeqUpTo(Segments, MaxSegs)}

\* What a header starts with.
Schemes == {BEARER_, BEARER, LOWER_BEARER_, BASIC_}

\* Headers: none, the empty one, and a scheme followed by a token, with or
\* without a second blank before the token and a further word after it.
Headers ==
  {NoHeader, Header(<<>>)}
  \cup {Header(p \o lead \o t \o trail) :
          p \in Schemes, lead \in {<<>>, <<" ">>}, t \in Tokens,
          trail \in {<<>>, <<" ", "x">>}}

\* "Bearer <header>.<payload>.<signature>" for every payload segment.
WellFormedHeaders ==
  {Header(BEARER_ \o Join(<<SEG_HEADER, p, SEG_HEADER>>, ".")) : p \in Segments}

\* allowed_roles of require_access
RoleLists == {<<ADMIN>>, <<EDITOR>>, <<EDITOR, ADMIN>>}

AuthDecorators ==
  {[decorator |-> "require_token", roles |-> NoRoles]}
  \cup {[decorator |-> "require_access", roles |-> r] : r \in RoleLists}

\* -------------------------------------------------------------------- state

VARIABLES
  cfg,           \* the handler's registration-time configuration
  req,           \* the request of the call
  pc,            \* where the call is
  raw,           \* the raw request mapping, once extracted
  objIn,         \* the object as it entered the post-validators
  obj,           \* the validated object, once there is one
  preRan,        \* the pre-validators run so far, in order
  postRan,       \* the post-validators run so far, in order
  failedAt,      \* the stage that failed: "extract", "pre", "schema", "post"
  err,           \* the error on its way to the adapter
  handlerCalls,  \* times the application handler was invoked
  delivered,     \* what the handler was invoked with
  errCalls,      \* times adapter.handle_validation_error was invoked
  errDelivered,  \* the error it was invoked with
  outcome,       \* what the call gave back to its caller
  token,         \* the token taken from the Authorization header
  payload,       \* the decoded token payload
  authErr,       \* the AuthError caught by the auth wrapper
  authErrCalls,  \* times adapter.handle_auth_error was invoked
  authErrDelivered,  \* the error it was invoked with
  passed,        \* the arguments the auth wrapper called func with
  clock,         \* the wall clock (UTC), in ticks of 1/TicksPerSecond s
  issueData,     \* the caller's claims mapping handed to create_access_token
  tokenClaims,   \* create_access_token's own claims mapping
  stamps,        \* the {"exp", "iat"} mapping under construction
  signedClaims,  \* the claims of the signed token
  heap,          \* the dict objects callers own: object id -> contents
  calls          \* the interleaved calls handed those objects: id -> state

vars == <<cfg, req, pc, raw, objIn, obj, preRan, postRan, failedAt, err,
          handlerCalls, delivered, errCalls, errDelivered, outcome,
          token, payload, authErr, authErrCalls, authErrDelivered, passed,
          clock, issueData, tokenClaims, stamps, signedClaims, heap, calls>>

\* The state of the validation wrapper, and of the auth wrapper.
valVars == <<raw, objIn, obj, preRan, postRan, failedAt, err, errCalls, errDelivered>>
authVars == <<token, payload, authErr, authErrCalls, authErrDelivered, passed>>
\* The state of token issuing.
issueVars == <<clock, issueData, tokenClaims, stamps, signedClaims>>

\* The state of interleaved calls on caller-owned objects.
sharedVars == <<heap, calls>>

\* No interleaved calls are under way.
SharedIdle ==
  /\ heap = <<>>
  /\ calls = <<>>

\* A claims mapping of a token to issue: claim -> integer.
NoIssueClaims == [k \in {} |-> 0]

\* No token is being issued.
IssueIdle ==
  /\ clock = 0
  /\ issueData = NoIssueClaims
  /\ tokenClaims = NoIssueClaims
  /\ stamps = NoIssueClaims
  /\ signedClaims = NoIssueClaims

NoDelivery == [validated |-> NoModel, user_payload |-> NoPayload]

\* func has not been called.
NotPassed == [posargs |-> <<>>, kwargs |-> EmptyMap]

InitCall ==
  /\ raw = EmptyMap
  /\ objIn = NoModel
  /\ obj = NoModel
  /\ failedAt = ""
  /\ preRan = <<>>
  /\ postRan = <<>>
  /\ err = NoError
  /\ handlerCalls = 0
  /\ delivered = NoDelivery
  /\ errCalls = 0
  /\ errDelivered = NoError
  /\ outcome = NoOutcome
  /\ token = <<>>
  /\ payload = NoPayload
  /\ authErr = NoAuthError
  /\ authErrCalls = 0
  /\ authErrDelivered = NoAuthError
  /\ passed = NotPassed

\* Bindings without validators, met with every combination of request sources.
PlainConfigs ==
  {ValidateConfig(a, s, m, <<>>, <<>>, "default") :
     a \in Adapters, s \in Schemas, m \in Modes}

\* Bindings with every option.
FullConfigs ==
  {ValidateConfig(a, s, m, pre, post, fmt) :
     a \in Adapters, s \in Schemas, m \in Modes, pre \in SeqUpTo(PreNames, MaxPre),
     post \in SeqUpTo(PostNames, MaxPost), fmt \in Formatters}

\* A call arrives at a validation-decorated handler.
Init ==
  /\ \/ /\ cfg \in PlainConfigs
        /\ req \in RequestsFor(cfg.adapter, cfg.schema, TRUE)
     \/ /\ cfg \in FullConfigs
        /\ req \in RequestsFor(cfg.adapter, cfg.schema, FALSE)
  /\ pc = "v_extract"
  /\ InitCall
  /\ IssueIdle
  /\ SharedIdle

\* ------------------------------------------------- the validation pipeline

\* The pre-validators in declared order, each on the previous one's mapping,
\* stopping at the first that raises.
RECURSIVE RunPre(_, _, _)
RunPre(names, data, ran) ==
  IF names = <<>> THEN [ok |-> TRUE, data |-> data, ran |-> ran]
  ELSE LET r == ApplyPre(Head(names), data)
       IN  IF r.ok THEN RunPre(Tail(names), r.data, Append(ran, Head(names)))
           ELSE [ok |-> FALSE, data |-> data, ran |-> Append(ran, Head(names))]

\* The post-validators in declared order, each on the previous one's object,
\* stopping at the first that raises.
RECURSIVE RunPost(_, _, _)
RunPost(names, o, ran) ==
  IF names = <<>> THEN [ok |-> TRUE, obj |-> o, ran |-> ran, message |-> ""]
  ELSE LET r == ApplyPost(Head(names), o)
       IN  IF r.ok THEN RunPost(Tail(names), r.obj, Append(ran, Head(names)))
           ELSE [ok |-> FALSE, obj |-> o, ran |-> Append(ran, Head(names)),
                 message |-> r.message]

\* Step 1: the adapter extracts the raw mapping, or signals "already
\* validated" (FastAPI), or fails.
Extract ==
  /\ pc = "v_extract"
  /\ LET res == ExtractRequestData(cfg.adapter, req)
     IN  CASE res.kind = "data" ->
                /\ raw' = res.data
                /\ obj' = obj
                /\ err' = err
                /\ failedAt' = failedAt
                /\ pc' = "v_pre"
           [] res.kind = "tuple" ->
                /\ raw' = res.data
                /\ obj' = res.model
                /\ err' = err
                /\ failedAt' = failedAt
                /\ pc' = "v_post"
           [] OTHER ->
                /\ raw' = raw
                /\ obj' = obj
                /\ err' = [cls |-> res.kind, message |-> res.message, details |-> <<>>]
                /\ failedAt' = "extract"
                /\ pc' = "v_error"
  /\ objIn' = obj'
  /\ UNCHANGED <<cfg, req, preRan, postRan, handlerCalls, delivered, errCalls,
                 errDelivered, outcome>>
  /\ UNCHANGED authVars
  /\ UNCHANGED issueVars
  /\ UNCHANGED sharedVars

\* Step 2: the pre-validators.
PreValidate ==
  /\ pc = "v_pre"
  /\ LET r == RunPre(cfg.pre, raw, <<>>)
     IN  /\ preRan' = r.ran
         /\ raw' = r.data
         /\ IF r.ok
            THEN /\ pc' = "v_schema"
                 /\ err' = err
                 /\ failedAt' = failedAt
            ELSE /\ pc' = "v_error"
                 /\ err' = [cls |-> "ValueError", message |-> "pre-validator", details |-> <<>>]
                 /\ failedAt' = "pre"
  /\ UNCHANGED <<cfg, req, objIn, obj, postRan, handlerCalls, delivered, errCalls,
                 errDelivered, outcome>>
  /\ UNCHANGED authVars
  /\ UNCHANGED issueVars
  /\ UNCHANGED sharedVars

\* Step 3: the schema validates the mapping under the mode's two switches.
SchemaValidate ==
  /\ pc = "v_schema"
  /\ LET errors == SchemaErrors(cfg.schema, raw, RejectUnknown(cfg.mode), Coerce(cfg.mode))
     IN  IF errors = <<>>
         THEN /\ obj' = SchemaObject(cfg.schema, raw, Coerce(cfg.mode))
              /\ err' = err
              /\ failedAt' = failedAt
              /\ pc' = "v_post"
         ELSE /\ obj' = obj
              /\ err' = GatewayValidationError("Validation failed",
                                               FormatErrors(cfg.formatter, errors))
              /\ failedAt' = "schema"
              /\ pc' = "v_error"
  /\ objIn' = obj'
  /\ UNCHANGED <<cfg, req, raw, preRan, postRan, handlerCalls, delivered, errCalls,
                 errDelivered, outcome>>
  /\ UNCHANGED authVars
  /\ UNCHANGED issueVars
  /\ UNCHANGED sharedVars

\* Step 4: the post-validators; one that raises is converted to a
\* GatewayValidationError.
PostValidate ==
  /\ pc = "v_post"
  /\ LET r == RunPost(cfg.post, obj, <<>>)
     IN  /\ postRan' = r.ran
         /\ obj' = r.obj
         /\ IF r.ok
            THEN /\ pc' = "v_handler"
                 /\ err' = err
                 /\ failedAt' = failedAt
            ELSE /\ pc' = "v_error"
                 /\ err' = GatewayValidationError(r.message, <<>>)
                 /\ failedAt' = "post"
  /\ UNCHANGED <<cfg, req, raw, objIn, preRan, handlerCalls, delivered, errCalls,
                 errDelivered, outcome>>
  /\ UNCHANGED authVars
  /\ UNCHANGED issueVars
  /\ UNCHANGED sharedVars

\* Step 5: the handler is invoked with the final validated object, next to
\* the keyword arguments the wrapper was called with (user_payload, when an
\* auth wrapper is outside), and its return value passed through.
InvokeHandler ==
  /\ pc = "v_handler"
  /\ handlerCalls' = handlerCalls + 1
  /\ delivered' = [validated |-> obj, user_payload |-> payload]
  /\ outcome' = Returned("handler_result")
  /\ pc' = "done"
  /\ UNCHANGED <<cfg, req, raw, objIn, obj, preRan, postRan, failedAt, err, errCalls,
                 errDelivered>>
  /\ UNCHANGED authVars
  /\ UNCHANGED issueVars
  /\ UNCHANGED sharedVars

\* Step 6: the error goes to adapter.handle_validation_error, whose result
\* is the call's.
DeliverValidationError ==
  /\ pc = "v_error"
  /\ errCalls' = errCalls + 1
  /\ errDelivered' = err
  /\ outcome' = HandleValidationError(cfg.adapter, err)
  /\ pc' = "done"
  /\ UNCHANGED <<cfg, req, raw, objIn, obj, preRan, postRan, failedAt, err,
                 handlerCalls, delivered>>
  /\ UNCHANGED authVars
  /\ UNCHANGED issueVars
  /\ UNCHANGED sharedVars

Next ==
  \/ Extract
  \/ PreValidate
  \/ SchemaValidate
  \/ PostValidate
  \/ InvokeHandler
  \/ DeliverValidationError

Spec == Init /\ [][Next]_vars

\* ------------------------------------------------------- the auth wrappers

\* A call arrives at a handler behind require_token or require_access:
\* every header for a handler that returns, and well-formed headers for
\* every handler.
InitAuth ==
  /\ \E d \in AuthDecorators :
       \/ /\ cfg = AuthConfig(d.decorator, d.roles, "return")
          /\ req \in {AuthRequest(h) : h \in Headers}
       \/ /\ cfg \in {AuthConfig(d.decorator, d.roles, b) : b \in HandlerBehaviours}
          /\ req \in {AuthRequest(h) : h \in WellFormedHeaders}
       \/ /\ cfg = AuthConfig(d.decorator, d.roles, "return")
          /\ req \in {AuthCall(h, p, k) :
                        h \in WellFormedHeaders \cup {NoHeader},
                        p \in {<<>>, <<IntArg>>, <<NoneArg, IntArg>>},
                        k \in CallerKwargs}
  /\ pc = "a_header"
  /\ InitCall
  /\ IssueIdle
  /\ SharedIdle

\* The header is fetched from the adapter and tested, and the token is the
\* second blank-separated word.
CheckHeader ==
  /\ pc = "a_header"
  /\ IF HeaderRejected(req.header)
     THEN /\ authErr' = AuthError("Authorization header is missing or invalid",
                                  DefaultAuthStatus)
          /\ token' = token
          /\ outcome' = outcome
          /\ pc' = "a_error"
     ELSE LET t == TokenOf(req.header.s)
          IN  IF t.ok
              THEN /\ token' = t.token
                   /\ authErr' = authErr
                   /\ outcome' = outcome
                   /\ pc' = "a_decode"
              ELSE /\ token' = token
                   /\ authErr' = authErr
                   /\ outcome' = Raised("IndexError", 0, "", <<>>)
                   /\ pc' = "done"
  /\ UNCHANGED <<cfg, req, payload, authErrCalls, authErrDelivered, handlerCalls,
                 delivered, passed>>
  /\ UNCHANGED valVars
  /\ UNCHANGED issueVars
  /\ UNCHANGED sharedVars

\* payload = simple_decode(token)
DecodeToken ==
  /\ pc = "a_decode"
  /\ LET d == simple_decode(token)
     IN  IF d.ok
         THEN /\ payload' = d.payload
              /\ authErr' = authErr
              /\ pc' = IF cfg.decorator = "require_access" THEN "a_role" ELSE "a_invoke"
         ELSE /\ payload' = payload
              /\ authErr' = AuthError("Invalid token format", DefaultAuthStatus)
              /\ pc' = "a_error"
  /\ UNCHANGED <<cfg, req, token, authErrCalls, authErrDelivered, handlerCalls,
                 delivered, outcome, passed>>
  /\ UNCHANGED valVars
  /\ UNCHANGED issueVars
  /\ UNCHANGED sharedVars

\* require_access only: payload.get("role") and the membership test.  A
\* payload that is not a mapping has no get(): the AttributeError is not an
\* AuthError and leaves the wrapper.
CheckRole ==
  /\ pc = "a_role"
  /\ IF payload.kind /= "dict"
     THEN /\ outcome' = Raised("AttributeError", 0, "", <<>>)
          /\ authErr' = authErr
          /\ pc' = "done"
     ELSE IF RoleRejected(payload, cfg.allowed_roles)
     THEN /\ authErr' = AuthError("You do not have permission to access this resource",
                                  ForbiddenStatus)
          /\ outcome' = outcome
          /\ pc' = "a_error"
     ELSE /\ authErr' = authErr
          /\ outcome' = outcome
          /\ pc' = "a_invoke"
  /\ UNCHANGED <<cfg, req, token, payload, authErrCalls, authErrDelivered,
                 handlerCalls, delivered, passed>>
  /\ UNCHANGED valVars
  /\ UNCHANGED issueVars
  /\ UNCHANGED sharedVars

\* kwargs['user_payload'] = payload; return func(*args, **kwargs), inside
\* the try: an AuthError the handler raises is caught like the wrapper's own.
InvokeWithPayload ==
  /\ pc = "a_invoke"
  /\ cfg.chain = "auth"
  /\ handlerCalls' = handlerCalls + 1
  /\ passed' = [posargs |-> req.posargs, kwargs |-> SetUserPayload(req.kwargs, payload)]
  /\ delivered' = [delivered EXCEPT !.user_payload = passed'.kwargs["user_payload"]]
  /\ CASE cfg.handler = "return" ->
            /\ outcome' = Returned("handler_result")
            /\ authErr' = authErr
            /\ pc' = "done"
       [] cfg.handler = "raise" ->
            /\ outcome' = Raised("RuntimeError", 0, "", <<>>)
            /\ authErr' = authErr
            /\ pc' = "done"
       [] cfg.handler = "raise_AuthError" ->
            /\ outcome' = outcome
            /\ authErr' = AuthError("raised by the handler", DefaultAuthStatus)
            /\ pc' = "a_error"
  /\ UNCHANGED <<cfg, req, token, payload, authErrCalls, authErrDelivered>>
  /\ UNCHANGED valVars
  /\ UNCHANGED issueVars
  /\ UNCHANGED sharedVars

\* except AuthError as e: return adapter.handle_auth_error(e)
DeliverAuthError ==
  /\ pc = "a_error"
  /\ authErrCalls' = authErrCalls + 1
  /\ authErrDelivered' = authErr
  /\ outcome' = FlaskHandleAuthError(authErr)
  /\ pc' = "done"
  /\ UNCHANGED <<cfg, req, token, payload, authErr, handlerCalls, delivered, passed>>
  /\ UNCHANGED valVars
  /\ UNCHANGED issueVars
  /\ UNCHANGED sharedVars

NextAuth ==
  \/ CheckHeader
  \/ DecodeToken
  \/ CheckRole
  \/ InvokeWithPayload
  \/ DeliverAuthError

SpecAuth == InitAuth /\ [][NextAuth]_vars

\* ------------------------------------- auth outside validation (server.py)

\* @require_flask_access(...) / @require_flask_token() over @validate_flask:
\* the bindings of /users, /users/premium, /submit and /mixed.
ChainPre == {<<>>, <<"sanitize_strings">>, <<"reject_all">>}
ChainPost == {<<>>, <<"audit_user">>, <<"enforce_min_salary">>}

ChainConfigs ==
  {Config("auth+validate", "Flask", s, m, pre, post, "default",
          d.decorator, d.roles, "return") :
     s \in Schemas, m \in Modes, pre \in ChainPre, post \in ChainPost,
     d \in AuthDecorators}

\* Headers of a chained call: none, another scheme, and a Bearer token with
\* every payload segment.
ChainHeaders ==
  {NoHeader, Header(BASIC_ \o SEG_ADMIN)} \cup WellFormedHeaders

\* A call arrives at a handler behind both decorators: a JSON body (valid or
\* not) and an Authorization header (valid or not).
InitChain ==
  /\ cfg \in ChainConfigs
  /\ req \in {[r EXCEPT !.header = h] :
                r \in BasicWebRequests(cfg.schema), h \in ChainHeaders}
  /\ pc = "a_header"
  /\ InitCall
  /\ IssueIdle
  /\ SharedIdle

\* kwargs['user_payload'] = payload; return func(*args, **kwargs), where
\* func is the validation wrapper: the validation pipeline starts.
InvokeValidationWrapper ==
  /\ pc = "a_invoke"
  /\ cfg.chain = "auth+validate"
  /\ pc' = "v_extract"
  /\ passed' = [posargs |-> req.posargs, kwargs |-> SetUserPayload(req.kwargs, payload)]
  /\ UNCHANGED <<cfg, req, outcome, handlerCalls, delivered>>
  /\ UNCHANGED <<token, payload, authErr, authErrCalls, authErrDelivered>>
  /\ UNCHANGED valVars
  /\ UNCHANGED issueVars
  /\ UNCHANGED sharedVars

NextChain ==
  \/ CheckHeader
  \/ DecodeToken
  \/ CheckRole
  \/ InvokeValidationWrapper
  \/ DeliverAuthError
  \/ Next

SpecChain == InitChain /\ [][NextChain]_vars

\* ------------------------------------------------ constructing an adapter

\* The operations FrameworkAdapter declares abstract.
AbstractMethods ==
  {"extract_request_data", "handle_validation_error", "get_auth_header",
   "handle_auth_error"}

\* The methods each adapter class defines.
Implements(adapter) ==
  CASE adapter = "Flask" ->
         {"extract_request_data", "handle_validation_error", "get_auth_header",
          "handle_auth_error"}
    [] adapter = "Django" -> {"extract_request_data", "handle_validation_error"}
    [] adapter = "FastAPI" ->
         {"extract_request_data", "_model_to_dict", "handle_validation_error"}
    [] adapter = "Generic" -> {"extract_request_data", "handle_validation_error"}

\* ABC: a class with an abstract method left undefined cannot be instantiated.
CanInstantiate(adapter) == AbstractMethods \subseteq Implements(adapter)

CannotInstantiate == Raised("TypeError", 0, "Can't instantiate abstract class", <<>>)

\* A handler behind require_token or require_access of any adapter.
AuthConfigOn(adapter, decorator, roles, handler) ==
  Config("auth", adapter, "UserSchema", "STRICT", <<>>, <<>>, "default",
         decorator, roles, handler)

\* An adapter of one of the four classes is about to be constructed, for a
\* validation decorator or for an auth decorator, and a call will follow.
InitConstruct ==
  /\ \/ /\ cfg \in PlainConfigs
        /\ req \in RequestsFor(cfg.adapter, cfg.schema, FALSE)
     \/ /\ cfg \in {AuthConfigOn(a, d.decorator, d.roles, "return") :
                      a \in Adapters, d \in AuthDecorators}
        /\ req \in {AuthRequest(h) : h \in WellFormedHeaders \cup {NoHeader}}
  /\ pc = "construct"
  /\ InitCall
  /\ IssueIdle
  /\ SharedIdle

\* XAdapter(): the instance, or TypeError from ABC.
Construct ==
  /\ pc = "construct"
  /\ IF CanInstantiate(cfg.adapter)
     THEN /\ pc' = IF cfg.chain = "auth" THEN "a_header" ELSE "v_extract"
          /\ outcome' = outcome
     ELSE /\ pc' = "done"
          /\ outcome' = CannotInstantiate
  /\ UNCHANGED <<cfg, req, handlerCalls, delivered>>
  /\ UNCHANGED valVars
  /\ UNCHANGED authVars
  /\ UNCHANGED issueVars
  /\ UNCHANGED sharedVars

\* ------------------------------------------------------- issuing a token

ACCESS_TOKEN_EXPIRE_MINUTES == 30

\* The claims callers pass: any of sub and role, with or without an iat and
\* an exp of their own.
InputClaims ==
  UNION {[K -> {7}] : K \in SUBSET {"sub", "role", "iat", "exp"}}

\* int(datetime.now(timezone.utc).timestamp()): whole epoch seconds.
EpochSeconds(t) == t \div TicksPerSecond

\* timedelta(minutes=ACCESS_TOKEN_EXPIRE_MINUTES), in ticks.
ExpiryWindow == ACCESS_TOKEN_EXPIRE_MINUTES * 60 * TicksPerSecond

\* create_access_token(data) is called at some time of day.
InitIssue ==
  /\ cfg = [chain |-> "issue"]
  /\ \E d \in InputClaims : req = [data |-> d] /\ issueData = d
  /\ clock \in 0..(TicksPerSecond - 1)
  /\ tokenClaims = NoIssueClaims
  /\ stamps = NoIssueClaims
  /\ signedClaims = NoIssueClaims
  /\ pc = "t_copy"
  /\ InitCall
  /\ SharedIdle

\* Time passes while the call runs.
Tick ==
  /\ pc \in {"t_copy", "t_exp", "t_iat", "t_update", "t_sign"}
  /\ clock < MaxClock
  /\ clock' = clock + 1
  /\ UNCHANGED <<cfg, req, pc, handlerCalls, delivered, outcome, issueData,
                 tokenClaims, stamps, signedClaims>>
  /\ UNCHANGED valVars
  /\ UNCHANGED authVars
  /\ UNCHANGED sharedVars

\* claims = data.copy()
CopyClaims ==
  /\ pc = "t_copy"
  /\ tokenClaims' = issueData
  /\ pc' = "t_exp"
  /\ UNCHANGED <<cfg, req, handlerCalls, delivered, outcome, clock, issueData,
                 stamps, signedClaims>>
  /\ UNCHANGED valVars
  /\ UNCHANGED authVars
  /\ UNCHANGED sharedVars

\* "exp": int((datetime.now(timezone.utc) + timedelta(minutes=...)).timestamp())
ComputeExp ==
  /\ pc = "t_exp"
  /\ stamps' = [k \in {"exp"} |-> EpochSeconds(clock + ExpiryWindow)]
  /\ pc' = "t_iat"
  /\ UNCHANGED <<cfg, req, handlerCalls, delivered, outcome, clock, issueData,
                 tokenClaims, signedClaims>>
  /\ UNCHANGED valVars
  /\ UNCHANGED authVars
  /\ UNCHANGED sharedVars

\* "iat": int(datetime.now(timezone.utc).timestamp()), a second clock reading
ComputeIat ==
  /\ pc = "t_iat"
  /\ stamps' = [k \in {"exp", "iat"} |->
                  IF k = "exp" THEN stamps["exp"] ELSE EpochSeconds(clock)]
  /\ pc' = "t_update"
  /\ UNCHANGED <<cfg, req, handlerCalls, delivered, outcome, clock, issueData,
                 tokenClaims, signedClaims>>
  /\ UNCHANGED valVars
  /\ UNCHANGED authVars
  /\ UNCHANGED sharedVars

\* claims.update({...})
UpdateClaims ==
  /\ pc = "t_update"
  /\ tokenClaims' = [k \in (DOMAIN tokenClaims) \cup (DOMAIN stamps) |->
                       IF k \in DOMAIN stamps THEN stamps[k] ELSE tokenClaims[k]]
  /\ pc' = "t_sign"
  /\ UNCHANGED <<cfg, req, handlerCalls, delivered, outcome, clock, issueData,
                 stamps, signedClaims>>
  /\ UNCHANGED valVars
  /\ UNCHANGED authVars
  /\ UNCHANGED sharedVars

\* jwt.JWT(header, claims=claims); make_signed_token; return token.serialize()
SignToken ==
  /\ pc = "t_sign"
  /\ signedClaims' = tokenClaims
  /\ outcome' = Returned("token")
  /\ pc' = "done"
  /\ UNCHANGED <<cfg, req, handlerCalls, delivered, clock, issueData, tokenClaims,
                 stamps>>
  /\ UNCHANGED valVars
  /\ UNCHANGED authVars
  /\ UNCHANGED sharedVars

NextIssue ==
  \/ Tick
  \/ CopyClaims
  \/ ComputeExp
  \/ ComputeIat
  \/ UpdateClaims
  \/ SignToken

SpecIssue == InitIssue /\ [][NextIssue]_vars

NextConstruct ==
  \/ Construct
  \/ Next
  \/ NextAuth

SpecConstruct == InitConstruct /\ [][NextConstruct]_vars

\* ------------------------------------------- properties: validation pipeline

Done == pc = "done"

\* The keys of the extracted payload that the schema does not declare.
Undeclared == (DOMAIN raw) \ Declared(cfg.schema)

\* Every declared field is present and acceptable.
DeclaredValid(schema, data, coerce) ==
  \A i \in 1..Len(FieldsOf(schema)) :
    /\ FieldsOf(schema)[i].name \in DOMAIN data
    /\ FieldCheck(FieldsOf(schema)[i].type, data[FieldsOf(schema)[i].name], coerce).ok

\* C1: every call through a validation-decorated handler ends in exactly one
\* of two ways: the handler is invoked (once) with the final validated object,
\* or the error is delivered (once) to the adapter's handle_validation_error;
\* never both, never neither.  When extraction, a pre-validator, the schema
\* or a post-validator fails, the handler is not invoked: so a request whose
\* declared JSON body does not parse, or a generic call with an unsupported
\* argument, never reaches the handler.
C1_ExactlyOneOutcome ==
  /\ handlerCalls \in {0, 1}
  /\ errCalls \in {0, 1}
  /\ handlerCalls + errCalls <= 1
  /\ Done => handlerCalls + errCalls = 1
  /\ handlerCalls = 1 =>
       /\ failedAt = ""
       /\ delivered.validated = obj
       /\ outcome = Returned("handler_result")
  /\ failedAt /= "" => handlerCalls = 0
  /\ (Done /\ failedAt /= "") => (errCalls = 1 /\ errDelivered = err)
  /\ (Done /\ cfg.adapter \in {"Flask", "Django"} /\ req.json.kind = "malformed") =>
       (handlerCalls = 0 /\ errCalls = 1 /\ failedAt = "extract")
  /\ (Done /\ cfg.adapter = "Generic" /\ req.posargs = <<IntArg>>) =>
       (handlerCalls = 0 /\ errCalls = 1 /\ failedAt = "extract")

\* A generic call whose post-validator rejected the object: the error went to
\* the adapter, which raised it, and the handler never ran.
C1_Witness ==
  /\ Done
  /\ cfg.adapter = "Generic"
  /\ cfg.pre /= <<>>
  /\ failedAt = "post"
  /\ errCalls = 1
  /\ handlerCalls = 0
  /\ outcome.kind = "raise"

\* C5: under STRICT mode a payload with a field the schema does not declare
\* ends in a validation error (raised by the Generic adapter, a 422 response
\* from Flask) and the handler is never invoked, also when every declared
\* field is present and valid.
C5_StrictRejectsUndeclared ==
  (Done /\ cfg.mode = "STRICT" /\ Undeclared /= {}) =>
    /\ handlerCalls = 0
    /\ errCalls = 1
    /\ failedAt \in {"pre", "schema"}
    /\ cfg.adapter = "Flask" => (outcome.kind = "response" /\ outcome.status = 422)
    /\ cfg.adapter = "Generic" => outcome.kind = "raise"
    /\ failedAt = "schema" =>
         /\ errDelivered.cls = "GatewayValidationError"
         /\ cfg.formatter = "default" =>
              \A k \in Undeclared :
                \E i \in 1..Len(errDelivered.details) : errDelivered.details[i].path = k

\* A STRICT Flask call whose declared fields are all valid and which carries
\* an undeclared key: it ended as a 422.
C5_Witness ==
  /\ Done
  /\ cfg.mode = "STRICT"
  /\ cfg.adapter = "Flask"
  /\ Undeclared /= {}
  /\ DeclaredValid(cfg.schema, raw, FALSE)
  /\ outcome.status = 422
  /\ handlerCalls = 0

\* C6: under LAX or PERMISSIVE mode a payload whose declared fields are valid
\* and which also carries undeclared fields passes the schema: unless a
\* pre- or post-validator rejects it, the handler is invoked and the object it
\* receives holds none of the undeclared fields.
C6_LaxDiscardsUndeclared ==
  (Done /\ cfg.mode \in {"LAX", "PERMISSIVE"} /\ Undeclared /= {}
        /\ DeclaredValid(cfg.schema, raw, TRUE) /\ failedAt \notin {"pre", "post"}) =>
    /\ handlerCalls = 1
    /\ errCalls = 0
    /\ failedAt = ""
    /\ (DOMAIN delivered.validated.f) \cap Undeclared = {}
    /\ DOMAIN delivered.validated.f = Declared(cfg.schema)

\* A PERMISSIVE Django call with an undeclared key reached the handler.
C6_Witness ==
  /\ Done
  /\ cfg.mode = "PERMISSIVE"
  /\ cfg.adapter = "Django"
  /\ "extra" \in DOMAIN raw
  /\ handlerCalls = 1
  /\ "extra" \notin DOMAIN delivered.validated.f

\* The value the sources of a web request give a key under the precedence
\* JSON body > form fields > query parameters.
JsonFormQuery(r, k) ==
  IF k \in DOMAIN r.json.obj THEN Scalar(r.json.obj[k])
  ELSE IF k \in DOMAIN r.form THEN Flatten(r.form[k])
  ELSE Flatten(r.args[k])

\* C7: FlaskAdapter.extract_request_data merges the three sources with
\* precedence JSON body > form fields > query parameters, and keeps every key
\* that any source carries.
C7_FlaskMergePrecedence ==
  (cfg.adapter = "Flask" /\ pc = "v_pre") =>
    /\ DOMAIN raw = (DOMAIN req.args) \cup (DOMAIN req.form) \cup (DOMAIN req.json.obj)
    /\ \A k \in DOMAIN raw : raw[k] = JsonFormQuery(req, k)

\* A Flask request whose query string and JSON body collide on one key with
\* different values, and whose query string has a key of its own.
C7_Witness ==
  /\ cfg.adapter = "Flask"
  /\ pc = "v_pre"
  /\ \E k \in (DOMAIN req.args) \cap (DOMAIN req.json.obj) :
       /\ Flatten(req.args[k]) /= Scalar(req.json.obj[k])
       /\ raw[k] = Scalar(req.json.obj[k])
  /\ \E k \in (DOMAIN req.args) \ (DOMAIN req.json.obj) : raw[k] = Flatten(req.args[k])
  /\ \E k \in (DOMAIN req.json.obj) \ (DOMAIN req.args) : raw[k] = Scalar(req.json.obj[k])

\* C8: DjangoAdapter.extract_request_data applies the same precedence: on a
\* key collision the JSON body's value wins over the form's, which wins over
\* the query parameter's.
C8_DjangoMergePrecedence ==
  (cfg.adapter = "Django" /\ pc = "v_pre") =>
    \A k \in DOMAIN raw : raw[k] = JsonFormQuery(req, k)

AUDITED_CHARLIE ==
  <<"A","U","D","I","T","E","D","_","C","H","A","R","L","I","E">>

\* C9: post-validators run in registration order, each on the object the
\* previous one returned: with [f, g] the handler receives g(f(validated)).
\* Prefixing "audited_" and then upper-casing the username "charlie" delivers
\* "AUDITED_CHARLIE".
C9_PostValidatorOrder ==
  /\ (handlerCalls = 1 /\ Len(cfg.post) = 2) =>
       /\ postRan = cfg.post
       /\ delivered.validated =
            ApplyPost(cfg.post[2], ApplyPost(cfg.post[1], objIn).obj).obj
  /\ (handlerCalls = 1 /\ cfg.post = <<"audit_user", "uppercase_username">>
        /\ objIn.f["username"] = StrV(CHARLIE)) =>
       delivered.validated.f["username"] = StrV(AUDITED_CHARLIE)

\* The handler received AUDITED_CHARLIE from a FastAPI call bound with
\* [audit_user, uppercase_username].
C9_Witness ==
  /\ handlerCalls = 1
  /\ cfg.adapter = "FastAPI"
  /\ cfg.post = <<"audit_user", "uppercase_username">>
  /\ objIn.f["username"] = StrV(CHARLIE)
  /\ delivered.validated.f["username"] = StrV(AUDITED_CHARLIE)
  /\ delivered.validated /=
       ApplyPost("audit_user", ApplyPost("uppercase_username", objIn).obj).obj

AdminPaid(n) ==
  [cls |-> "SalarySchema",
   f |-> [k \in {"role", "salary"} |-> IF k = "role" THEN StrV(ADMIN) ELSE IntV(n)]]

\* C10: a post-validator that raises (whatever it raises) ends the call with a
\* GatewayValidationError delivered to the adapter's handle_validation_error;
\* the post-validators after it do not run and the handler is not invoked.
\* When none raises, the handler is invoked.  An admin paid 50000 is rejected
\* by enforce_min_salary, one paid 120000 is not.
C10_PostValidatorRejects ==
  /\ (Done /\ failedAt = "post") =>
       /\ errCalls = 1
       /\ errDelivered.cls = "GatewayValidationError"
       /\ handlerCalls = 0
       /\ postRan /= <<>>
       /\ Len(postRan) <= Len(cfg.post)
       /\ postRan = SubSeq(cfg.post, 1, Len(postRan))
       /\ ~ApplyPost(postRan[Len(postRan)], obj).ok
  /\ (Done /\ objIn /= NoModel /\ failedAt /= "post") =>
       (handlerCalls = 1 /\ postRan = cfg.post)
  /\ (Done /\ objIn = AdminPaid(50000) /\ cfg.post /= <<>>
        /\ cfg.post[1] = "enforce_min_salary") =>
       /\ handlerCalls = 0
       /\ errCalls = 1
       /\ postRan = <<"enforce_min_salary">>
       /\ errDelivered = GatewayValidationError("Admin too cheap!", <<>>)
  /\ (Done /\ objIn = AdminPaid(120000) /\ cfg.post = <<"enforce_min_salary">>) =>
       handlerCalls = 1

\* A generic call bound with [enforce_min_salary, g] for an admin paid 50000:
\* only enforce_min_salary ran.
C10_Witness ==
  /\ Done
  /\ cfg.adapter = "Generic"
  /\ objIn = AdminPaid(50000)
  /\ Len(cfg.post) = 2
  /\ postRan = <<"enforce_min_salary">>
  /\ failedAt = "post"
  /\ errCalls = 1
  /\ handlerCalls = 0

\* The fields of the payload the schema objects to, under the call's mode: a
\* declared field that is missing or of the wrong type, an undeclared key
\* when unknown fields are rejected.
Offending ==
  {k \in Declared(cfg.schema) \cup DOMAIN raw :
     IF k \in Declared(cfg.schema)
     THEN \/ k \notin DOMAIN raw
          \/ \E i \in 1..Len(FieldsOf(cfg.schema)) :
               /\ FieldsOf(cfg.schema)[i].name = k
               /\ ~FieldCheck(FieldsOf(cfg.schema)[i].type, raw[k], cfg.mode /= "STRICT").ok
     ELSE cfg.mode = "STRICT"}

\* Position of a key in detection order: declared fields first, in
\* declaration order, then the undeclared ones.
DetectionRank(k) ==
  IF k \in Declared(cfg.schema)
  THEN CHOOSE i \in 1..Len(FieldsOf(cfg.schema)) : FieldsOf(cfg.schema)[i].name = k
  ELSE Len(FieldsOf(cfg.schema)) + (CHOOSE i \in 1..Len(KeyOrder) : KeyOrder[i] = k)

\* C11: on schema failure the GatewayValidationError's details are the error
\* formatter applied to the ordered field errors: with the custom formatter
\* exactly its return value ([{"oops": "yeah"}]), with the default formatter
\* one record per offending field, in detection order, each naming the
\* field's path and a message.  The Generic adapter raises the error with
\* these details.
C11_FormattedDetails ==
  (failedAt = "schema" /\ pc \in {"v_error", "done"}) =>
    /\ err.cls = "GatewayValidationError"
    /\ cfg.formatter = "silly_formatter" => err.details = <<[oops |-> "yeah"]>>
    /\ cfg.formatter = "default" =>
         /\ Len(err.details) = Cardinality(Offending)
         /\ {err.details[i].path : i \in 1..Len(err.details)} = Offending
         /\ \A i \in 1..Len(err.details) : err.details[i].message /= ""
         /\ \A i, j \in 1..Len(err.details) :
              i < j => DetectionRank(err.details[i].path) < DetectionRank(err.details[j].path)
    /\ Done => errDelivered = err
    /\ (Done /\ cfg.adapter = "Generic") =>
         (outcome.kind = "raise" /\ outcome.details = err.details)

\* A STRICT generic call whose payload lacks one declared field, has another
\* of the wrong type and carries an undeclared key: three records, in order.
C11_Witness ==
  /\ Done
  /\ failedAt = "schema"
  /\ cfg.adapter = "Generic"
  /\ cfg.formatter = "default"
  /\ cfg.schema = "SalarySchema"
  /\ Len(outcome.details) = 3
  /\ outcome.details[1].path = "role"
  /\ outcome.details[3].path = "extra"

\* The message of an adapter's extraction error.
InvalidJsonMessage(adapter) ==
  IF adapter = "Flask" THEN "Invalid JSON format in request body"
  ELSE "Invalid JSON in request body"

\* C12: for Flask and Django, a declared JSON body that cannot be turned into
\* a field mapping (bytes that do not parse, or JSON that is a list or a
\* number) makes extract_request_data fail with a GatewayValidationError
\* carrying the adapter's message and empty details; nothing gathered from
\* the query or the form reaches validation, and no other exception type
\* leaves extraction.
C12_InvalidJsonBody ==
  (cfg.chain = "validate" /\ cfg.adapter \in {"Flask", "Django"}
     /\ req.json.kind \in {"malformed", "nonmapping"} /\ pc /= "v_extract") =>
    /\ failedAt = "extract"
    /\ pc \in {"v_error", "done"}
    /\ err = GatewayValidationError(InvalidJsonMessage(cfg.adapter), <<>>)
    /\ raw = EmptyMap
    /\ preRan = <<>>

\* C13: each adapter converts the error e it is handed, keeping e.message and
\* e.details: Flask answers 422 with {message, details}, Django answers 400
\* with {error, details}, FastAPI raises the framework's HTTP error with
\* status 422, Generic raises e itself.
C13_AdapterErrorConversion ==
  (cfg.chain = "validate" /\ Done /\ errCalls = 1) =>
    /\ outcome.message = errDelivered.message
    /\ outcome.details = errDelivered.details
    /\ cfg.adapter = "Flask" =>
         (outcome.kind = "response" /\ outcome.status = 422 /\ outcome.key = "message")
    /\ cfg.adapter = "Django" =>
         (outcome.kind = "response" /\ outcome.status = 400 /\ outcome.key = "error")
    /\ cfg.adapter = "FastAPI" =>
         (outcome.kind = "raise" /\ outcome.exc = "HTTPException" /\ outcome.status = 422)
    /\ cfg.adapter = "Generic" =>
         (outcome.kind = "raise" /\ outcome.exc = errDelivered.cls)

\* A Django call that failed the schema with field errors was answered 400
\* with those details under "error".
C13_Witness ==
  /\ Done
  /\ cfg.adapter = "Django"
  /\ errCalls = 1
  /\ errDelivered.cls = "GatewayValidationError"
  /\ errDelivered.details /= <<>>
  /\ outcome.status = 400
  /\ outcome.key = "error"
  /\ outcome.details = errDelivered.details

\* C14: all four adapters (Flask, Django, FastAPI, Generic) conform to the one
\* interface with its four operations, so each can be constructed and then
\* serves as the adapter of the validation pipeline and of the auth pipeline:
\* constructing one never fails, and the adapter a pipeline works with has
\* all four operations.
C14_AdaptersConform ==
  pc /= "construct" =>
    /\ outcome /= CannotInstantiate
    /\ \A m \in {"extract_request_data", "handle_validation_error",
                 "get_auth_header", "handle_auth_error"} : m \in Implements(cfg.adapter)

\* C15: the claims create_access_token signs always contain iat and exp,
\* replacing any the caller supplied, with exp equal to iat plus the expiry
\* window (30 minutes = 1800 seconds) in epoch seconds; every other input
\* claim is carried unchanged and the caller's mapping is not modified.
C15_IssuedClaims ==
  (cfg.chain = "issue" /\ Done) =>
    /\ DOMAIN signedClaims = (DOMAIN req.data) \cup {"iat", "exp"}
    /\ signedClaims["exp"] = signedClaims["iat"] + 1800
    /\ \A k \in (DOMAIN req.data) \ {"iat", "exp"} : signedClaims[k] = req.data[k]
    /\ issueData = req.data

\* ------------------------------------------------ properties: auth wrappers

Protected == cfg.chain = "auth"

\* Outcome (a): the handler ran once, with the decoded payload, no auth error
\* was handled, and what the handler produced is the call's outcome.
HandlerOutcome ==
  /\ handlerCalls = 1
  /\ authErrCalls = 0
  /\ payload.kind /= "none"
  /\ delivered.user_payload = payload
  /\ outcome.kind \in {"return", "raise"}

\* Outcome (b): handle_auth_error ran once, on an AuthError, its response is
\* the call's outcome, and the handler did not run.
AuthErrorOutcome ==
  /\ authErrCalls = 1
  /\ handlerCalls = 0
  /\ authErrDelivered.cls = "AuthError"
  /\ outcome = FlaskHandleAuthError(authErrDelivered)

\* C2: every call to a handler behind require_token or require_access ends
\* in exactly one of (a) the handler invoked once with the decoded payload
\* and its result passed through, or (b) handle_auth_error invoked once with
\* an AuthError and its result returned, the handler not invoked; never both,
\* never neither.
C2_AuthExactlyOneOutcome ==
  (Protected /\ Done) =>
    /\ HandlerOutcome \/ AuthErrorOutcome
    /\ ~(handlerCalls >= 1 /\ authErrCalls >= 1)

\* The role claim is there and is one of the allowed roles.
RoleMember ==
  /\ "role" \in DOMAIN payload.claims
  /\ payload.claims["role"].t = "str"
  /\ \E i \in 1..Len(cfg.allowed_roles) : cfg.allowed_roles[i] = payload.claims["role"].s

Forbidden ==
  Response(403, "detail", "You do not have permission to access this resource", <<>>)

\* C3: require_access invokes the handler if and only if the decoded payload
\* has a role claim that is one of the allowed roles; every token that
\* decodes and whose role claim is absent or not allowed ends as the auth
\* error with status 403 and this message.
C3_RoleGate ==
  (Protected /\ cfg.decorator = "require_access" /\ Done /\ payload.kind /= "none") =>
    /\ (handlerCalls = 1) <=> RoleMember
    /\ ~RoleMember => (outcome = Forbidden /\ handlerCalls = 0)

MissingOrInvalid ==
  Response(401, "detail", "Authorization header is missing or invalid", <<>>)

\* The Authorization header is absent, empty, or does not begin with
\* "Bearer " (with the blank).
NoBearerHeader ==
  \/ ~req.header.present
  \/ Len(req.header.s) < 7
  \/ SubSeq(req.header.s, 1, 7) /= BEARER_

\* C4: when the Authorization header is absent, empty or does not start with
\* the exact prefix "Bearer ", both decorators end the call with the auth
\* error of status 401 and message "Authorization header is missing or
\* invalid" (from Flask: that status with the body {"detail": message}), and
\* the handler is not invoked.
C4_MissingOrInvalidHeader ==
  (Protected /\ NoBearerHeader) =>
    /\ handlerCalls = 0
    /\ pc \in {"a_header", "a_error", "done"}
    /\ token = <<>>
    /\ payload = NoPayload
    /\ pc = "a_error" => authErr = AuthError("Authorization header is missing or invalid", 401)
    /\ Done =>
         /\ authErrCalls = 1
         /\ authErrDelivered = AuthError("Authorization header is missing or invalid", 401)
         /\ outcome = MissingOrInvalid

\* A require_access call whose header carries an admin token after "Bearer"
\* without the blank ended as the 401; so did one with no header.
C4_Witness ==
  /\ Protected
  /\ Done
  /\ cfg.decorator = "require_access"
  /\ cfg.allowed_roles = <<ADMIN>>
  /\ req.header = Header(BEARER \o Join(<<SEG_HEADER, SEG_ADMIN, SEG_HEADER>>, "."))
  /\ outcome = MissingOrInvalid
  /\ handlerCalls = 0

\* The segments that are base64url of a JSON object.
ObjectSegments == {SEG_HEADER, SEG_ADMIN, SEG_NO_ROLE, SEG_EMPTY_ROLE}

\* Exactly three dot-separated segments, the middle one a JSON object.
ThreeSegmentObjectToken(t) ==
  LET parts == Split(t, ".")
  IN  Len(parts) = 3 /\ parts[2] \in ObjectSegments

\* C16: simple_decode returns a payload only for a token of exactly three
\* dot-separated segments whose middle segment is base64url of a JSON
\* object; for every other token it fails with AuthError(401, "Invalid token
\* format"), so the payload the role check and the handler get is a mapping.
C16_DecodeOnlyObjects ==
  (Protected /\ ~NoBearerHeader /\ pc \notin {"a_header", "a_decode"}) =>
    /\ payload.kind /= "none" => (ThreeSegmentObjectToken(token) /\ payload.kind = "dict")
    /\ ~ThreeSegmentObjectToken(token) =>
         (payload.kind = "none" /\ authErr = AuthError("Invalid token format", 401))
    /\ handlerCalls = 1 => delivered.user_payload.kind = "dict"

\* C17: for every Authorization header that starts with "Bearer ", the
\* string handed to the token decoder is the whole of the header after that
\* prefix: nothing is dropped, nothing is cut at a later blank.
C17_WholeSubstringDecoded ==
  (Protected /\ ~NoBearerHeader /\ pc /= "a_header") =>
    token = SubSeq(req.header.s, 8, Len(req.header.s))

\* C18: in require_access the checks run in the order header, token decode,
\* role, and the first failing one decides the outcome: a missing or
\* non-Bearer header, or a token that does not decode, gives status 401
\* whatever allowed_roles is; a decoded token without an allowed role gives
\* 403, and 403 is given only after the token decoded.  The rendered
\* response carries the error's status code.
C18_CheckOrder ==
  (Protected /\ cfg.decorator = "require_access" /\ Done) =>
    /\ NoBearerHeader => (outcome.kind = "response" /\ outcome.status = 401)
    /\ (~NoBearerHeader /\ payload.kind = "none") =>
         outcome = Response(401, "detail", "Invalid token format", <<>>)
    /\ (payload.kind /= "none" /\ ~RoleMember) =>
         (outcome.kind = "response" /\ outcome.status = 403)
    /\ outcome.status = 403 => (payload.kind /= "none" /\ ~RoleMember)
    /\ authErrCalls = 1 => outcome.status = authErrDelivered.status_code

\* ------------------------------------- properties: auth outside validation

Chained == cfg.chain = "auth+validate"

\* The auth stage succeeded: a payload was decoded, no AuthError was raised
\* and, behind require_access, the role is an allowed one.
AuthPassed ==
  /\ payload.kind /= "none"
  /\ authErr = NoAuthError
  /\ cfg.decorator = "require_access" => RoleMember

\* No step of the validation wrapper has run.
ValidationNeverRan ==
  /\ raw = EmptyMap /\ obj = NoModel /\ preRan = <<>> /\ postRan = <<>>
  /\ failedAt = "" /\ err = NoError /\ errCalls = 0

\* C19: behind the auth decorator outside the validation decorator the auth
\* stage runs first.  When auth fails, no stage of validation ever runs and
\* the response is the auth error (401 or 403), whatever the body; when auth
\* succeeds and validation fails, the response is the validation error and
\* the handler is not invoked; the handler is invoked, with validated and
\* user_payload, only when both stages succeed.
C19_AuthThenValidation ==
  Chained =>
    /\ pc \in {"v_extract", "v_pre", "v_schema", "v_post", "v_handler", "v_error"}
         => AuthPassed
    /\ handlerCalls >= 1 =>
         /\ AuthPassed /\ failedAt = ""
         /\ delivered = [validated |-> obj, user_payload |-> payload]
         /\ obj /= NoModel
    /\ Done =>
         IF ~AuthPassed
         THEN /\ ValidationNeverRan
              /\ handlerCalls = 0
              /\ authErrCalls = 1
              /\ outcome = FlaskHandleAuthError(authErrDelivered)
              /\ outcome.status \in {401, 403}
         ELSE IF failedAt /= ""
         THEN /\ handlerCalls = 0
              /\ authErrCalls = 0
              /\ errCalls = 1
              /\ outcome = FlaskHandleValidationError(errDelivered)
         ELSE /\ handlerCalls = 1
              /\ outcome = Returned("handler_result")

\* --------------------------------------------- properties: multi-valued keys

MultiValuedSources == {"args", "form"}

\* The key comes from this multi-valued source alone: no other source of the
\* request carries it.
OnlyIn(k, src) ==
  /\ k \in DOMAIN req[src]
  /\ \A other \in MultiValuedSources \ {src} : k \notin DOMAIN req[other]
  /\ k \notin DOMAIN req.json.obj

\* C20: in Flask and Django extraction, a key of a multi-valued source (the
\* query string or the form) with exactly one value is extracted as that
\* scalar, and a key with two or more values as the sequence of all its
\* values in request order; the same for both sources and both adapters.
C20_MultiValuedKeys ==
  (cfg.adapter \in {"Flask", "Django"} /\ pc = "v_pre") =>
    \A src \in MultiValuedSources : \A k \in DOMAIN req[src] :
      OnlyIn(k, src) =>
        /\ k \in DOMAIN raw
        /\ Len(req[src][k]) = 1 =>
             (~raw[k].list /\ raw[k].items = <<req[src][k][1]>>)
        /\ Len(req[src][k]) >= 2 =>
             (raw[k].list /\ raw[k].items = req[src][k])

\* A Django request extracted with a query key of two values or more and a
\* form key of one value, each in that source alone.
C20_Witness ==
  /\ cfg.adapter = "Django"
  /\ pc = "v_pre"
  /\ \E k \in DOMAIN req.args :
       OnlyIn(k, "args") /\ Len(req.args[k]) >= 2 /\ raw[k].items = req.args[k]
  /\ \E k \in DOMAIN req.form :
       OnlyIn(k, "form") /\ Len(req.form[k]) = 1 /\ ~raw[k].list

\* ------------------------------------- properties: FastAPI, already validated

\* The schema objects among the call's arguments, keyword ones first.
ModelsAmongArgs ==
  SelectSeq(req.kwargs \o req.posargs, LAMBDA a : a.kind = "model")

\* C21: when a FastAPI call's arguments hold an already-validated schema
\* object, extraction returns the mapping of that object's fields with that
\* same object, the first among the keyword arguments before any positional
\* one; the pre-validators and the schema validation are skipped, only the
\* post-validators run, on that object, and the handler receives the
\* post-validated object.
C21_FastAPIAlreadyValidated ==
  (cfg.adapter = "FastAPI" /\ ModelsAmongArgs /= <<>>) =>
    LET m == ModelsAmongArgs[1].model
        post == RunPost(cfg.post, m, <<>>)
    IN  /\ pc \notin {"v_pre", "v_schema"}
        /\ preRan = <<>>
        /\ failedAt \in {"", "post"}
        /\ pc /= "v_extract" =>
             /\ raw = [k \in DOMAIN m.f |-> Scalar(m.f[k])]
             /\ objIn = m
        /\ Done => IF post.ok
                   THEN /\ handlerCalls = 1
                        /\ postRan = cfg.post
                        /\ delivered.validated = post.obj
                   ELSE /\ handlerCalls = 0
                        /\ errCalls = 1

\* The handler of a FastAPI call received the post-validated object of the
\* keyword model, which a post-validator changed, while a different model was
\* the positional argument and a plain value the first keyword argument.
C21_Witness ==
  /\ cfg.adapter = "FastAPI"
  /\ handlerCalls = 1
  /\ Len(req.posargs) = 1 /\ Len(req.kwargs) = 2
  /\ req.posargs[1].kind = "model"
  /\ req.kwargs[1].kind = "int"
  /\ req.kwargs[2].kind = "model"
  /\ req.kwargs[2].model /= req.posargs[1].model
  /\ objIn = req.kwargs[2].model
  /\ cfg.post /= <<>>
  /\ delivered.validated /= objIn

\* ------------------------------ interleaved calls of generic handlers

\* Two calls under way at once.
CallIds == {1, 2}

\* The dict objects callers hand to generically decorated handlers.
SharedDicts ==
  {[k \in {"username"} |-> Scalar(x)] :
     x \in {StrV(SPACED_CHARLIE), StrV(CHARLIE), IntV(50000)}}

\* A binding of validate_generic, and whether its pre-validators change the
\* mapping they are given (and return it) or build a new one.
SharedBindings ==
  {[binding |-> ValidateConfig("Generic", "UserSchema", m, pre, <<>>, "default"),
    in_place |-> b] :
     m \in Modes, pre \in {<<>>, <<"sanitize_strings">>, <<"reject_all">>},
     b \in BOOLEAN}

CallStart ==
  [pc |-> "v_extract", ref |-> 0, own |-> EmptyMap, obj |-> NoModel,
   err |-> NoError, handlerCalls |-> 0, delivered |-> NoModel,
   outcome |-> NoOutcome]

\* Two calls, handler_a(d) and handler_b(e), of the same or of different
\* handlers, where d and e are the same dict object or two objects.
InitShared ==
  /\ \E b \in [CallIds -> SharedBindings] : cfg = [chain |-> "shared", calls |-> b]
  /\ \E h \in [CallIds -> SharedDicts], a \in [CallIds -> CallIds] :
       /\ req = [heap |-> h, arg |-> a]
       /\ heap = h
  /\ calls = [i \in CallIds |-> CallStart]
  /\ pc = "shared"
  /\ InitCall
  /\ IssueIdle

\* The raw mapping of a call: the object it refers to, or its own mapping.
RawOf(i) == IF calls[i].ref = 0 THEN calls[i].own ELSE heap[calls[i].ref]

SharedFrame ==
  /\ UNCHANGED <<cfg, req, pc, handlerCalls, delivered, outcome>>
  /\ UNCHANGED valVars
  /\ UNCHANGED authVars
  /\ UNCHANGED issueVars

\* GenericAdapter.extract_request_data on a dict: return request_data, the
\* caller's object itself.
SharedExtract(i) ==
  /\ calls[i].pc = "v_extract"
  /\ calls' = [calls EXCEPT ![i].ref = req.arg[i], ![i].pc = "v_pre"]
  /\ heap' = heap
  /\ SharedFrame

\* The pre-validators on the raw mapping: in place, or into a new mapping.
SharedPreValidate(i) ==
  /\ calls[i].pc = "v_pre"
  /\ LET c == cfg.calls[i]
         r == RunPre(c.binding.pre, RawOf(i), <<>>)
     IN  IF ~r.ok
         THEN /\ calls' = [calls EXCEPT
                             ![i].err = [cls |-> "ValueError", message |-> "pre-validator",
                                         details |-> <<>>],
                             ![i].pc = "v_error"]
              /\ heap' = heap
         ELSE IF c.binding.pre = <<>> \/ c.in_place
         THEN /\ heap' = [heap EXCEPT ![calls[i].ref] = r.data]
              /\ calls' = [calls EXCEPT ![i].pc = "v_schema"]
         ELSE /\ heap' = heap
              /\ calls' = [calls EXCEPT ![i].ref = 0, ![i].own = r.data,
                                        ![i].pc = "v_schema"]
  /\ SharedFrame

\* Schema validation of the raw mapping as it is now.
SharedSchemaValidate(i) ==
  /\ calls[i].pc = "v_schema"
  /\ LET c == cfg.calls[i].binding
         errors == SchemaErrors(c.schema, RawOf(i), RejectUnknown(c.mode), Coerce(c.mode))
     IN  IF errors = <<>>
         THEN calls' = [calls EXCEPT
                          ![i].obj = SchemaObject(c.schema, RawOf(i), Coerce(c.mode)),
                          ![i].pc = "v_handler"]
         ELSE calls' = [calls EXCEPT
                          ![i].err = GatewayValidationError("Validation failed",
                                       FormatErrors(c.formatter, errors)),
                          ![i].pc = "v_error"]
  /\ heap' = heap
  /\ SharedFrame

SharedInvokeHandler(i) ==
  /\ calls[i].pc = "v_handler"
  /\ calls' = [calls EXCEPT ![i].handlerCalls = @ + 1,
                            ![i].delivered = calls[i].obj,
                            ![i].outcome = Returned("handler_result"),
                            ![i].pc = "done"]
  /\ heap' = heap
  /\ SharedFrame

SharedDeliverValidationError(i) ==
  /\ calls[i].pc = "v_error"
  /\ calls' = [calls EXCEPT ![i].outcome = GenericHandleValidationError(calls[i].err),
                            ![i].pc = "done"]
  /\ heap' = heap
  /\ SharedFrame

NextShared ==
  \E i \in CallIds :
    \/ SharedExtract(i)
    \/ SharedPreValidate(i)
    \/ SharedSchemaValidate(i)
    \/ SharedInvokeHandler(i)
    \/ SharedDeliverValidationError(i)

SpecShared == InitShared /\ [][NextShared]_vars

\* ------------------------------------------ properties: independent calls

\* What a call of this binding on this mapping gives when it runs alone.
Alone(c, d) ==
  LET r == RunPre(c.pre, d, <<>>)
      errors == SchemaErrors(c.schema, r.data, RejectUnknown(c.mode), Coerce(c.mode))
  IN  IF ~r.ok
      THEN [delivered |-> NoModel,
            outcome |-> GenericHandleValidationError(
                          [cls |-> "ValueError", message |-> "pre-validator",
                           details |-> <<>>])]
      ELSE IF errors /= <<>>
      THEN [delivered |-> NoModel,
            outcome |-> GenericHandleValidationError(
                          GatewayValidationError("Validation failed",
                                                 FormatErrors(c.formatter, errors)))]
      ELSE [delivered |-> SchemaObject(c.schema, r.data, Coerce(c.mode)),
            outcome |-> Returned("handler_result")]

\* C22: interleaved calls through the same or different decorated handlers
\* are independent: what a call delivers to its handler, or the error it
\* ends in, depends only on its own request data and its binding, and no
\* call writes data another call can observe, the raw request mapping the
\* adapter returned and the pre-validators change included.
C22_CallsIndependent ==
  cfg.chain = "shared" =>
    /\ \A i \in CallIds :
         calls[i].pc = "done" =>
           LET alone == Alone(cfg.calls[i].binding, req.heap[req.arg[i]])
           IN  /\ calls[i].delivered = alone.delivered
               /\ calls[i].outcome = alone.outcome
    /\ \A i \in CallIds, j \in CallIds :
         (i /= j /\ req.arg[i] = req.arg[j]) => heap[req.arg[i]] = req.heap[req.arg[i]]

\* ------------------------------------- properties: arguments passed on

\* C23: whenever an auth wrapper invokes the handler, the user_payload the
\* handler receives is the payload decoded from the request's own token, a
\* user_payload keyword argument of the caller being overwritten; every
\* other positional and keyword argument reaches the handler unchanged, and
\* what the handler returns is returned unmodified.
C23_PayloadInjected ==
  (Protected /\ handlerCalls >= 1) =>
    /\ handlerCalls = 1
    /\ LET d == simple_decode(TokenOf(req.header.s).token)
       IN  /\ d.ok
           /\ delivered.user_payload = d.payload
           /\ passed.kwargs["user_payload"] = d.payload
    /\ passed.posargs = req.posargs
    /\ DOMAIN passed.kwargs = (DOMAIN req.kwargs) \cup {"user_payload"}
    /\ \A k \in (DOMAIN req.kwargs) \ {"user_payload"} : passed.kwargs[k] = req.kwargs[k]
    /\ (Done /\ cfg.handler = "return") => outcome = Returned("handler_result")

\* A handler that returned was called with positional arguments, a URL
\* variable, and the decoded payload in place of the user_payload the caller
\* supplied.
C23_Witness ==
  /\ Protected
  /\ Done
  /\ handlerCalls = 1
  /\ outcome = Returned("handler_result")
  /\ Len(req.posargs) = 2
  /\ DOMAIN req.kwargs = {"user_payload", "item_id"}
  /\ req.kwargs["user_payload"] /= payload
  /\ delivered.user_payload = payload
  /\ passed.kwargs["item_id"] = IntArg

====
